---- MODULE Spec2Model ----
(***************************************************************************)
(* The PRPromise combinators of src/src/core/PRPromise.js, run on a model  *)
(* of the promise machinery they are written with.                         *)
(*                                                                         *)
(* A PRPromise is a function r => Promise.  The model keeps a PRPromise as *)
(* a record naming the combinator that built it and the values it closed   *)
(* over; calling it with a config r is the operator Invoke, which allocates*)
(* promises in `heap` exactly as the combinator's body does (.then and     *)
(* .catch allocate a derived promise with one reaction).  Reactions run as *)
(* separate steps (jobs), leaf requests settle as separate steps.          *)
(***************************************************************************)
EXTENDS Integers, Sequences, FiniteSets, TLC

\* ---------------------------------------------------------------- bounds
\* Number of distinct leaf requests (and of list items for forEveryFirst).
NumLeaves == 3
\* Longest list handed to forEveryFirst.
MaxItems == 3

\* ---------------------------------------------------------------- values
Null == "null"
Values == {Null, "a", "b"}
\* What a leaf request does once it is in flight: reject, or resolve to a value.
Fail == "fail"
Behaviours == {Fail} \cup Values
Leaves == 1..NumLeaves
Worlds == [Leaves -> Behaviours]

\* Readonly configs handed to the top-level call.
Envs == { [server |-> "A", owner |-> "B"], [server |-> "A", owner |-> "C"] }
NoEnv == [none |-> "none"]
NoArg == "none"

\* ---------------------------------------------------------------- PRPromise values
\* A leaf request such as repoGetJSON(path): calling it starts one request.
Leaf(id, arg) == [op |-> "leaf", id |-> id, arg |-> arg]

\* A function a => PRPromise handed to then/chain/forEveryFirst.
\* LeafK(id): a => (the leaf request id, built from a).
LeafK(id) == [k |-> "leafK", id |-> id]
\* ItemK: x => (the leaf request of list item x), the f of forEveryFirst.
ItemK == [k |-> "itemK"]
\* PureK: a => pure(a).
PureK == [k |-> "pureK"]

\* Log entries: f called with an argument, a leaf request started with a
\* config, a leaf request settled.
CallEv(id, arg) == [ev |-> "call", id |-> id, arg |-> arg, env |-> NoEnv]
StartEv(id, arg, r) == [ev |-> "start", id |-> id, arg |-> arg, env |-> r]
SettleEv(id, arg, r) == [ev |-> "settle", id |-> id, arg |-> arg, env |-> r]
\* The function handed to map called with a.
FnEv(a) == [ev |-> "fn", id |-> 0, arg |-> a, env |-> NoEnv]

\* export const pure = (a) => (_) => Promise.resolve(a)
pure(a) == [op |-> "pure", a |-> a]

\* export const empty = () => Promise.reject()
\* The function `empty` itself, used as a PRPromise (its argument ignored).
empty == [op |-> "empty"]
\* The value of the call expression empty(): a rejected promise, not a function.
emptyCalled == [op |-> "promise", st |-> "rejected"]

\* export const map = (fn, pr) => r => ...
map(fn, pr) == [op |-> "map", fn |-> fn, pr |-> pr]

\* export const then = (pr, ...fns) => r => ...
then(pr, fns) == [op |-> "then", pr |-> pr, fns |-> fns]

\* export const or = (pr1, pr2) => (r) => ...
or(pr1, pr2) == [op |-> "or", pr1 |-> pr1, pr2 |-> pr2]

\* export const when = (f, a) => (r) => ...
when(f, a) == [op |-> "when", f |-> f, a |-> a]

\* export const extendConfig = (c, p) => (r) => ...
extendConfig(c, p) == [op |-> "extendConfig", c |-> c, p |-> p]

\* Variants of rejectOnNull: one that lets null through, one with the test
\* inverted.
rejectOnNullNever(a) == pure(a)
rejectOnNullInverted(a) == IF a = Null THEN pure(a) ELSE empty

\* Variant of rejectOnNull testing for any value that is false:
\* (a) => !a ? empty : pure(a)
rejectOnNullFalsy(a) ==
  IF a \in {Null, "false", "0", "", "undefined"} THEN empty ELSE pure(a)

\* const rejectOnNull = (a) => a === null ? empty : pure(a)
rejectOnNull(a) == IF a = Null THEN empty ELSE pure(a)
RejectOnNullK == [k |-> "rejectOnNull"]

\* Variant of chain composing in the other order.
chainSwapped(f, g) == [k |-> "chain", f |-> g, g |-> f]

\* export const chain = (f,g) => (a) => then(f(a), g)
chain(f, g) == [k |-> "chain", f |-> f, g |-> g]
\* The lambda y => then(f(y), g) of the doc comment of then.
LamThen(f, g) == [k |-> "lamThen", f |-> f, g |-> g]

\* Calling a function a => PRPromise: the PRPromise it returns and the calls
\* of leaf-building functions it made.
RECURSIVE Apply(_, _)
Apply(f, a) ==
  CASE f.k = "leafK" -> [pr |-> Leaf(f.id, a), calls |-> <<CallEv(f.id, a)>>]
    [] f.k = "itemK" -> [pr |-> Leaf(a, NoArg), calls |-> <<CallEv(a, NoArg)>>]
    [] f.k = "pureK" -> [pr |-> pure(a), calls |-> <<>>]
    [] f.k = "rejectOnNull" -> [pr |-> rejectOnNull(a), calls |-> <<>>]
    [] f.k \in {"chain", "lamThen"} ->
         LET inner == Apply(f.f, a)
         IN [pr |-> then(inner.pr, <<f.g>>), calls |-> inner.calls]

\* export const forEveryFirst = (f, xs) => xs.reduce((p, x) => or(p, then(f(x), rejectOnNull)), empty)
\* The PRPromise it returns and the calls of f made while building it.
RECURSIVE forEveryFirstFrom(_, _, _, _)
forEveryFirstFrom(f, xs, i, acc) ==
  IF i > Len(xs) THEN acc
  ELSE LET fx == Apply(f, xs[i])
       IN forEveryFirstFrom(f, xs, i + 1,
            [pr |-> or(acc.pr, then(fx.pr, <<RejectOnNullK>>)),
             calls |-> acc.calls \o fx.calls])

\* Variant of forEveryFirst folding from the right (reduceRight).
forEveryFirstReversed(f, xs) ==
  forEveryFirstFrom(f, [i \in 1..Len(xs) |-> xs[Len(xs) + 1 - i]], 1,
                    [pr |-> empty, calls |-> <<>>])

forEveryFirst(f, xs) == forEveryFirstFrom(f, xs, 1, [pr |-> empty, calls |-> <<>>])


\* ---------------------------------------------------------------- promises
\* One promise of the heap.  kind "leaf": the promise of a leaf request;
\* "settled": Promise.resolve(a) / Promise.reject(); "then" / "catch": the
\* promise src.then(h) / src.catch(h) returns.  adopt # 0: the handler returned
\* the promise heap[adopt], whose outcome this promise takes.
NoHandler == [h |-> "none"]
Promise(kind, st, val, src, h, id, arg, r) ==
  [kind |-> kind, st |-> st, val |-> val, src |-> src, adopt |-> 0, h |-> h,
   id |-> id, arg |-> arg, env |-> r]

\* Promise.resolve(a)
PromiseResolve(a) == Promise("settled", "fulfilled", a, 0, NoHandler, 0, NoArg, NoEnv)
\* Promise.reject()
PromiseReject == Promise("settled", "rejected", NoArg, 0, NoHandler, 0, NoArg, NoEnv)
\* p.then(h)
PromiseThen(p, h) == Promise("then", "pending", NoArg, p, h, 0, NoArg, NoEnv)
\* p.catch(h)
PromiseCatch(p, h) == Promise("catch", "pending", NoArg, p, h, 0, NoArg, NoEnv)
\* fetch(...).then(r => r.json()), seen as one pending request
PromiseFetch(id, arg, r) == Promise("leaf", "pending", NoArg, 0, NoHandler, id, arg, r)

\* The interpreter's state while a call runs: the heap, the log, the promise
\* the call returned (0: the call threw), and the client's config object (no
\* combinator writes to it; it is part of the state so that a write would show).
Running(h, lg, cfg) == [heap |-> h, log |-> lg, ret |-> 0, cfg |-> cfg]
Alloc(s, p) == [s EXCEPT !.heap = Append(s.heap, p), !.ret = Len(s.heap) + 1]
Throw(s) == [s EXCEPT !.ret = 0]
Logged(s, evs) == [s EXCEPT !.log = s.log \o evs]

\* The reactions the combinators register.
\*   then:  b => f(b)(r)        map:  a => fn(a)        or:  () => pr2(r)
ThenHandler(f, r) == [h |-> "thenStep", f |-> f, r |-> r]
MapHandler(fn) == [h |-> "mapStep", fn |-> fn]
OrHandler(pr2, r) == [h |-> "orCatch", pr2 |-> pr2, r |-> r]

\* {...r, ...c}
Overlay(r, c) ==
  [k \in DOMAIN r \cup DOMAIN c |-> IF k \in DOMAIN c THEN c[k] ELSE r[k]]

\* The predicates handed to when: r => r[key] === val
FieldIs(key, val) == [key |-> key, val |-> val]
Holds(f, r) == f.key \in DOMAIN r /\ r[f.key] = f.val

\* The functions handed to map.
Fns == {"id", "swap", "isNull", "throws"}
FnThrows(fn, a) == fn = "throws"
FnValue(fn, a) ==
  CASE fn = "id" -> a
    [] fn = "swap" -> (IF a = "a" THEN "b" ELSE IF a = "b" THEN "a" ELSE a)
    [] fn = "isNull" -> (IF a = Null THEN "yes" ELSE "no")
    [] OTHER -> a

RECURSIVE Invoke(_, _, _)

\* Variant of pure that rejects with the value: (_) => Promise.reject(a)
pureRunRejects(a, r, s) == Alloc(s, PromiseReject)

\* (_) => Promise.resolve(a)
pureRun(a, r, s) == Alloc(s, PromiseResolve(a))

\* Variant of empty whose promise never settles: () => new Promise(() => {})
emptyRunNever(r, s) ==
  Alloc(s, Promise("settled", "pending", NoArg, 0, NoHandler, 0, NoArg, NoEnv))

\* () => Promise.reject(), called with r
emptyRun(r, s) == Alloc(s, PromiseReject)

\* A leaf request called with r: the request starts.
leafRun(id, arg, r, s) ==
  Logged(Alloc(s, PromiseFetch(id, arg, r)), <<StartEv(id, arg, r)>>)

\* r => pr(r).then(a => fn(a))
mapRun(fn, pr, r, s) ==
  LET s1 == Invoke(pr, r, s)
  IN IF s1.ret = 0 THEN s1 ELSE Alloc(s1, PromiseThen(s1.ret, MapHandler(fn)))

\* fns.reduce((accPr, f) => accPr.then(b => f(b)(r)), <acc>)
RECURSIVE thenReduce(_, _, _, _)
thenReduce(fns, i, r, s) ==
  IF i > Len(fns) THEN s
  ELSE thenReduce(fns, i + 1, r, Alloc(s, PromiseThen(s.ret, ThenHandler(fns[i], r))))

\* Variant of then that recovers from a failure of pr before sequencing.
thenRunSwallow(pr, fns, r, s) ==
  LET s1 == Invoke(or(pr, pure(Null)), r, s)
  IN IF s1.ret = 0 THEN s1 ELSE thenReduce(fns, 1, r, s1)

\* r => fns.reduce((accPr, f) => accPr.then(b => f(b)(r)), pr(r))
thenRun(pr, fns, r, s) ==
  LET s1 == Invoke(pr, r, s)
  IN IF s1.ret = 0 THEN s1 ELSE thenReduce(fns, 1, r, s1)

\* Variants of or: the alternatives swapped; both alternatives called at once.
orRunSwapped(pr1, pr2, r, s) ==
  LET s1 == Invoke(pr2, r, s)
  IN IF s1.ret = 0 THEN s1 ELSE Alloc(s1, PromiseCatch(s1.ret, OrHandler(pr1, r)))
orRunEager(pr1, pr2, r, s) ==
  LET s2 == Invoke(pr2, r, s)
      s1 == Invoke(pr1, r, s2)
  IN IF s1.ret = 0 THEN s1 ELSE Alloc(s1, PromiseCatch(s1.ret, OrHandler(pr2, r)))

\* (r) => pr1(r).catch(() => pr2(r))
orRun(pr1, pr2, r, s) ==
  LET s1 == Invoke(pr1, r, s)
  IN IF s1.ret = 0 THEN s1 ELSE Alloc(s1, PromiseCatch(s1.ret, OrHandler(pr2, r)))

\* Variant of when with the branches exchanged.
whenRunInverted(f, a, r, s) ==
  IF Holds(f, r) THEN Invoke(empty, r, s) ELSE Invoke(pure(a), r, s)

\* (r) => f(r) ? pure(a)(r) : empty(r)
whenRun(f, a, r, s) ==
  IF Holds(f, r) THEN Invoke(pure(a), r, s) ELSE Invoke(empty, r, s)

\* Variant of extendConfig that writes into the config it was given:
\* (r) => p(Object.assign(r, c))
extendConfigRunAssign(c, p, r, s) ==
  Invoke(p, Overlay(r, c), IF r = s.cfg THEN [s EXCEPT !.cfg = Overlay(r, c)] ELSE s)

\* (r) => p({...r, ...c})
extendConfigRun(c, p, r, s) == Invoke(p, Overlay(r, c), s)

\* pr(r): the call of a PRPromise with a config.  A value that is not a
\* function (the promise empty() returns) cannot be called: TypeError.
Invoke(pr, r, s) ==
  CASE pr.op = "leaf" -> leafRun(pr.id, pr.arg, r, s)
    [] pr.op = "pure" -> pureRun(pr.a, r, s)
    [] pr.op = "empty" -> emptyRun(r, s)
    [] pr.op = "map" -> mapRun(pr.fn, pr.pr, r, s)
    [] pr.op = "then" -> thenRun(pr.pr, pr.fns, r, s)
    [] pr.op = "or" -> orRun(pr.pr1, pr.pr2, r, s)
    [] pr.op = "when" -> whenRun(pr.f, pr.a, r, s)
    [] pr.op = "extendConfig" -> extendConfigRun(pr.c, pr.p, r, s)
    [] pr.op = "promise" -> Throw(s)

\* Variant of then's reaction that drops the value: b => f()(r)
thenStepNoArg(f, r, b, s) ==
  LET fb == Apply(f, NoArg)
  IN Invoke(fb.pr, r, Logged(s, fb.calls))

\* Variant of then's reaction that drops the config: b => f(b)()
thenStepNoEnv(f, r, b, s) ==
  LET fb == Apply(f, b)
  IN Invoke(fb.pr, NoEnv, Logged(s, fb.calls))

\* b => f(b)(r), the reaction of then
thenStep(f, r, b, s) ==
  LET fb == Apply(f, b)
  IN Invoke(fb.pr, r, Logged(s, fb.calls))

\* Variant of or's reaction that drops the config: () => pr2()
orCatchNoEnv(pr2, r, s) == Invoke(pr2, NoEnv, s)

\* () => pr2(r), the reaction of or
orCatch(pr2, r, s) == Invoke(pr2, r, s)


\* Variants of map's reaction: a => { fn(a) } (nothing returned);
\* a => a && fn(a) (fn skipped for a value that is false); a => a (fn
\* ignored); a => { try { return fn(a) } catch (_) { return a } }.
mapStepNoReturn(fn, a, p) ==
  IF FnThrows(fn, a) THEN [p EXCEPT !.st = "rejected"]
  ELSE [p EXCEPT !.st = "fulfilled", !.val = "undefined"]
mapStepGuarded(fn, a, p) ==
  IF a \in {Null, "false", "0", "", "undefined"}
  THEN [p EXCEPT !.st = "fulfilled", !.val = a]
  ELSE IF FnThrows(fn, a) THEN [p EXCEPT !.st = "rejected"]
  ELSE [p EXCEPT !.st = "fulfilled", !.val = FnValue(fn, a)]
mapStepIgnoresFn(fn, a, p) == [p EXCEPT !.st = "fulfilled", !.val = a]
mapStepCatches(fn, a, p) ==
  IF FnThrows(fn, a) THEN [p EXCEPT !.st = "fulfilled", !.val = a]
  ELSE [p EXCEPT !.st = "fulfilled", !.val = FnValue(fn, a)]

\* a => fn(a), the reaction of map: the promise settles with fn(a), or is
\* rejected when fn throws.
mapStep(fn, a, p) ==
  IF FnThrows(fn, a) THEN [p EXCEPT !.st = "rejected"]
  ELSE [p EXCEPT !.st = "fulfilled", !.val = FnValue(fn, a)]

\* ---------------------------------------------------------------- programs
\* The expressions a client evaluates, then calls one after the other with
\* the same config.  e, f, g: a leaf request and two functions building one.
E == Leaf(1, NoArg)
F == LeafK(2)
G == LeafK(3)

RECURSIVE SeqsUpTo(_, _)
SeqsUpTo(S, n) ==
  IF n = 0 THEN {<<>>}
  ELSE LET shorter == SeqsUpTo(S, n - 1)
       IN shorter \cup {Append(q, x) : q \in {t \in shorter : Len(t) = n - 1}, x \in S}

Plain(name) == [name |-> name, xs |-> <<>>, n |-> 0]
Scenarios ==
  {Plain("or"), Plain("assoc"), Plain("orEmpty")}
    \cup {[name |-> "forEveryFirst", xs |-> xs, n |-> 0] : xs \in SeqsUpTo(Leaves, MaxItems)}
    \cup {[name |-> "then", xs |-> <<>>, n |-> n] : n \in 0..(NumLeaves - 1)}
    \cup {[name |-> "mix", xs |-> <<>>, n |-> n] : n \in 1..4}
    \cup {Plain("identity"), Plain("when"), Plain("fallback"), Plain("null"),
          Plain("scope"), Plain("falsy")}
    \cup {[name |-> "extend", xs |-> <<>>, n |-> n] : n \in 1..3}
    \cup {[name |-> "map", xs |-> <<>>, n |-> n] : n \in 1..4}

\* The objects handed to extendConfig: one overriding a field of the config,
\* one adding a field, one doing both.
ExtraConfig(n) ==
  CASE n = 1 -> [owner |-> "X"]
    [] n = 2 -> [prId |-> "2"]
    [] n = 3 -> [owner |-> "X", prId |-> "2"]
\* The functions handed to map.
MapFn(n) == <<"id", "swap", "isNull", "throws">>[n]
\* r => r.owner === "B"
OwnerIsB == FieldIs("owner", "B")

\* then(e, f1, ..., fn) with fi building leaf request i + 1
ThenFns(n) == [i \in 1..n |-> LeafK(i + 1)]

Mix(n) ==
  CASE n = 1 -> or(extendConfig([owner |-> "C"], map("swap", E)),
                   then(when(FieldIs("owner", "B"), "a"), <<F>>))
    [] n = 2 -> then(or(when(FieldIs("owner", "C"), "b"), E), <<chain(F, G), PureK>>)
    [] n = 3 -> map("id", or(then(E, <<F>>), forEveryFirst(ItemK, <<3, 1>>).pr))
    [] n = 4 -> then(forEveryFirst(ItemK, <<1, 2>>).pr,
                     <<LamThen(F, G)>>)

\* What evaluating the scenario's expressions yields: the PRPromises, and the
\* calls made while building them.
Built(s) ==
  CASE s.name = "or" -> [suite |-> <<or(E, Leaf(2, NoArg))>>, calls |-> <<>>]
    [] s.name = "forEveryFirst" ->
         LET b == forEveryFirst(ItemK, s.xs)
         IN [suite |-> <<b.pr>>, calls |-> b.calls]
    [] s.name = "then" -> [suite |-> <<then(E, ThenFns(s.n))>>, calls |-> <<>>]
    [] s.name = "assoc" ->
         [suite |-> << then(then(E, <<F>>), <<G>>),
                       then(E, <<F, G>>),
                       then(E, <<LamThen(F, G)>>),
                       then(E, <<chain(F, G)>>) >>,
          calls |-> <<>>]
    [] s.name = "orEmpty" ->
         [suite |-> << or(emptyCalled, E), or(E, emptyCalled), E >>, calls |-> <<>>]
    [] s.name = "identity" ->
         [suite |-> << then(E, <<>>), map("id", E), E >>, calls |-> <<>>]
    [] s.name = "extend" ->
         [suite |-> << extendConfig(ExtraConfig(s.n), E), E >>, calls |-> <<>>]
    [] s.name = "when" -> [suite |-> << when(OwnerIsB, "a") >>, calls |-> <<>>]
    [] s.name = "fallback" ->
         [suite |-> << or(E, or(Leaf(2, NoArg), pure("d"))),
                       or(when(OwnerIsB, "a"), pure("d")) >>,
          calls |-> <<>>]
    [] s.name = "null" ->
         [suite |-> << or(E, Leaf(2, NoArg)),
                       then(E, <<F>>),
                       map("isNull", E),
                       forEveryFirst(ItemK, <<1, 2>>).pr >>,
          calls |-> forEveryFirst(ItemK, <<1, 2>>).calls]
    [] s.name = "map" -> [suite |-> << map(MapFn(s.n), E) >>, calls |-> <<>>]
    [] s.name = "scope" ->
         [suite |-> << then(extendConfig(ExtraConfig(1), E), <<F>>),
                       or(extendConfig(ExtraConfig(1), E), Leaf(2, NoArg)),
                       extendConfig(ExtraConfig(1), then(E, <<F>>)),
                       extendConfig(ExtraConfig(1), or(E, Leaf(2, NoArg))) >>,
          calls |-> <<>>]
    [] s.name = "falsy" ->
         [suite |-> << forEveryFirst(ItemK, <<1, 2>>).pr >>,
          calls |-> forEveryFirst(ItemK, <<1, 2>>).calls]
    [] s.name = "mix" ->
         [suite |-> <<Mix(s.n)>>,
          calls |-> IF s.n = 3 THEN forEveryFirst(ItemK, <<3, 1>>).calls
                    ELSE IF s.n = 4 THEN forEveryFirst(ItemK, <<1, 2>>).calls
                    ELSE <<>>]

\* The leaf requests a scenario can start; what the others would do is fixed,
\* since nothing reads it.
Used(s) ==
  CASE s.name = "or" -> {1, 2}
    [] s.name = "forEveryFirst" -> {s.xs[i] : i \in DOMAIN s.xs}
    [] s.name = "then" -> 1..(s.n + 1)
    [] s.name \in {"orEmpty", "identity", "extend", "map"} -> {1}
    [] s.name = "when" -> {}
    [] s.name \in {"fallback", "null", "scope", "falsy"} -> {1, 2}
    [] OTHER -> {1, 2, 3}

\* Values other than null that JavaScript treats as false.
Falsy == {"false", "0", "", "undefined"}

\* What the leaf requests of a scenario may do.  The "falsy" scenario has
\* its first request succeed with a falsy value.
WorldsOf(s) ==
  IF s.name = "falsy"
  THEN {w \in [Leaves -> Falsy \cup {Fail, "a"}] :
          /\ w[1] \in Falsy /\ w[2] \in {Fail, "a"}
          /\ \A l \in Leaves \ Used(s) : w[l] = Fail}
  ELSE {w \in Worlds : \A l \in Leaves \ Used(s) : w[l] = Fail}

\* ---------------------------------------------------------------- state
VARIABLES
  sc,       \* the scenario
  env,      \* the config the client passes
  world,    \* what each leaf request does
  pc,       \* "build", "idle" (between calls), "running", "done"
  suite,    \* the PRPromises built
  blog,     \* calls of leaf-building functions made while building
  cur,      \* the PRPromise being run
  heap,     \* the promises of the current call
  root,     \* the promise the current call returned
  log,      \* the log of the current call
  results,  \* the outcome of each finished call
  logs      \* the log of each finished call

vars == <<sc, env, world, pc, suite, blog, cur, heap, root, log, results, logs>>

Settled(p) == p.st # "pending"
Outcome(p) == [st |-> p.st, val |-> p.val]
Threw == [st |-> "threw", val |-> NoArg]

Init ==
  /\ sc \in Scenarios
  /\ env \in Envs
  /\ world \in WorldsOf(sc)
  /\ pc = "build"
  /\ suite = <<>>
  /\ blog = <<>>
  /\ cur = 0
  /\ heap = <<>>
  /\ root = 0
  /\ log = <<>>
  /\ results = <<>>
  /\ logs = <<>>

\* The client evaluates its expressions.
Build ==
  /\ pc = "build"
  /\ suite' = Built(sc).suite
  /\ blog' = Built(sc).calls
  /\ cur' = 1
  /\ pc' = "idle"
  /\ UNCHANGED <<sc, env, world, heap, root, log, results, logs>>

\* The current call is over with outcome o: on to the next PRPromise.
Finish(o, lg) ==
  /\ results' = Append(results, o)
  /\ logs' = Append(logs, lg)
  /\ heap' = <<>>
  /\ root' = 0
  /\ log' = <<>>
  /\ IF cur < Len(suite) THEN cur' = cur + 1 /\ pc' = "idle"
     ELSE cur' = cur /\ pc' = "done"

\* The client calls the current PRPromise with its config.
Call ==
  /\ pc = "idle"
  /\ LET s == Invoke(suite[cur], env, Running(<<>>, <<>>, env))
     IN /\ env' = s.cfg
        /\ IF s.ret = 0
           THEN Finish(Threw, s.log)
           ELSE /\ heap' = s.heap
                /\ root' = s.ret
                /\ log' = s.log
                /\ pc' = "running"
                /\ UNCHANGED <<cur, results, logs>>
  /\ UNCHANGED <<sc, world, suite, blog>>

\* A leaf request in flight settles.
Settle(p) ==
  /\ pc = "running"
  /\ heap[p].kind = "leaf"
  /\ heap[p].st = "pending"
  /\ heap' = [heap EXCEPT ![p] =
                IF world[heap[p].id] = Fail THEN [@ EXCEPT !.st = "rejected"]
                ELSE [@ EXCEPT !.st = "fulfilled", !.val = world[heap[p].id]]]
  /\ log' = Append(log, SettleEv(heap[p].id, heap[p].arg, heap[p].env))
  /\ UNCHANGED <<sc, env, world, pc, suite, blog, cur, root, results, logs>>

\* The promise p took the promise q a handler returned (q = 0: it threw).
Resolved(s, p, q) ==
  IF q = 0 THEN [s.heap EXCEPT ![p].st = "rejected"]
  ELSE [s.heap EXCEPT ![p].adopt = q]

Ready(p, kind) ==
  /\ pc = "running"
  /\ heap[p].kind = kind
  /\ heap[p].st = "pending"
  /\ heap[p].adopt = 0
  /\ Settled(heap[heap[p].src])

\* The reaction job of a promise src.then(h), once src has settled.
ReactThen(p) ==
  /\ Ready(p, "then")
  /\ LET src == heap[heap[p].src]
         h == heap[p].h
         s == Running(heap, log, env)
     IN IF src.st = "rejected"
        THEN heap' = [heap EXCEPT ![p].st = "rejected"] /\ log' = log /\ env' = env
        ELSE IF h.h = "mapStep"
        THEN /\ heap' = [heap EXCEPT ![p] = mapStep(h.fn, src.val, @)]
             /\ log' = Append(log, FnEv(src.val))
             /\ env' = env
        ELSE LET s1 == thenStep(h.f, h.r, src.val, s)
             IN heap' = Resolved(s1, p, s1.ret) /\ log' = s1.log /\ env' = s1.cfg
  /\ UNCHANGED <<sc, world, pc, suite, blog, cur, root, results, logs>>

\* The reaction job of a promise src.catch(h), once src has settled.
ReactCatch(p) ==
  /\ Ready(p, "catch")
  /\ LET src == heap[heap[p].src]
         h == heap[p].h
         s == Running(heap, log, env)
     IN IF src.st = "fulfilled"
        THEN /\ heap' = [heap EXCEPT ![p].st = "fulfilled", ![p].val = src.val]
             /\ log' = log /\ env' = env
        ELSE LET s1 == orCatch(h.pr2, h.r, s)
             IN heap' = Resolved(s1, p, s1.ret) /\ log' = s1.log /\ env' = s1.cfg
  /\ UNCHANGED <<sc, world, pc, suite, blog, cur, root, results, logs>>

\* A promise that took a handler's promise settles as that promise did.
Adopt(p) ==
  /\ pc = "running"
  /\ heap[p].st = "pending"
  /\ heap[p].adopt # 0
  /\ Settled(heap[heap[p].adopt])
  /\ heap' = [heap EXCEPT ![p].st = heap[heap[p].adopt].st,
                          ![p].val = heap[heap[p].adopt].val]
  /\ UNCHANGED <<sc, env, world, pc, suite, blog, cur, root, log, results, logs>>

\* The promise the call returned has settled: the client sees the outcome.
Return ==
  /\ pc = "running"
  /\ Settled(heap[root])
  /\ Finish(Outcome(heap[root]), log)
  /\ UNCHANGED <<sc, env, world, suite, blog>>

Next ==
  \/ Build
  \/ Call
  \/ \E p \in DOMAIN heap : Settle(p)
  \/ \E p \in DOMAIN heap : ReactThen(p)
  \/ \E p \in DOMAIN heap : ReactCatch(p)
  \/ \E p \in DOMAIN heap : Adopt(p)
  \/ Return

Spec == Init /\ [][Next]_vars


\* The event loop runs every job that is queued, and every request in flight
\* settles: a step that stays possible is taken.
\* The same program started on fewer inputs, to keep the check of what
\* eventually happens small: the lists handed to forEveryFirst are the
\* strictly increasing ones.
LiveScenarios ==
  {s \in Scenarios : \A i \in DOMAIN s.xs : i = 1 \/ s.xs[i - 1] < s.xs[i]}
LiveInit == Init /\ sc \in LiveScenarios
FairSpec == LiveInit /\ [][Next]_vars /\ WF_vars(Next)

\* ---------------------------------------------------------------- properties
IsPrefix(a, b) == Len(a) <= Len(b) /\ a = SubSeq(b, 1, Len(a))
\* The log of call i so far (the finished log once the call is over).
RunLog(i) == IF Len(logs) >= i THEN logs[i] ELSE IF cur = i THEN log ELSE <<>>
Finished(i) == Len(results) >= i
\* The outcome of a leaf request that behaves as b.
OutcomeOf(b) ==
  IF b = Fail THEN [st |-> "rejected", val |-> NoArg] ELSE [st |-> "fulfilled", val |-> b]
Started(lg, id) == \E i \in DOMAIN lg : lg[i].ev = "start" /\ lg[i].id = id
\* What running leaf request id (built from arg) to its end logs.
LeafTrace(id, arg) == <<StartEv(id, arg, env), SettleEv(id, arg, env)>>

\* C1: or is left-biased.  In or(e1, e2) called with env, when e1 succeeds
\* with V the call succeeds with V and e2 is never called.
OrLeftBias ==
  (sc.name = "or" /\ world[1] # Fail) =>
     /\ ~Started(RunLog(1), 2)
     /\ Finished(1) => results[1] = [st |-> "fulfilled", val |-> world[1]]

OrLeftBiasWitness ==
  /\ sc.name = "or" /\ world[1] = "a" /\ world[2] = Fail
  /\ pc = "done" /\ results[1].st = "fulfilled"
  /\ Started(logs[1], 1)

\* C2: or falls back.  In or(e1, e2) called with env, when e1 fails, e2 is
\* called exactly once, after e1 has settled, with the config e1 received,
\* and the call's outcome is e2's outcome.
OrFallback ==
  (sc.name = "or" /\ world[1] = Fail) =>
     /\ IsPrefix(RunLog(1), LeafTrace(1, NoArg) \o LeafTrace(2, NoArg))
     /\ Finished(1) =>
          /\ logs[1] = LeafTrace(1, NoArg) \o LeafTrace(2, NoArg)
          /\ results[1] = OutcomeOf(world[2])

OrFallbackWitness ==
  /\ sc.name = "or" /\ world[1] = Fail /\ world[2] = "b"
  /\ pc = "done" /\ results[1] = [st |-> "fulfilled", val |-> "b"]
  /\ Len(logs[1]) = 4

\* The first position of xs whose leaf request succeeds with a non-null
\* value (0: none does).
RECURSIVE FirstHit(_, _)
FirstHit(xs, i) ==
  IF i > Len(xs) THEN 0
  ELSE IF world[xs[i]] \notin {Fail, Null} THEN i
  ELSE FirstHit(xs, i + 1)

\* C3: forEveryFirst(f, items) succeeds with the value of the first item, in
\* list order, whose effect succeeds with a non-null value, and fails exactly
\* when no item's effect does (the empty list included).
ForEveryFirstResult ==
  (sc.name = "forEveryFirst" /\ Finished(1)) =>
     LET k == FirstHit(sc.xs, 1)
     IN results[1] = IF k = 0 THEN [st |-> "rejected", val |-> NoArg]
                     ELSE [st |-> "fulfilled", val |-> world[sc.xs[k]]]

ForEveryFirstResultWitness ==
  /\ sc.name = "forEveryFirst" /\ sc.xs = <<1, 2, 3>>
  /\ world[1] = Null /\ world[2] = Fail /\ world[3] = "a"
  /\ pc = "done" /\ results[1] = [st |-> "fulfilled", val |-> "a"]


\* The leaf requests a log starts, in order.
StartIds(lg) ==
  LET st == SelectSeq(lg, LAMBDA e : e.ev = "start")
  IN [i \in 1..Len(st) |-> st[i].id]
NumCalls(lg) == Len(SelectSeq(lg, LAMBDA e : e.ev = "call"))
\* The last position forEveryFirst has to try: the first hit, or the whole list.
LastTried(xs) == IF FirstHit(xs, 1) = 0 THEN Len(xs) ELSE FirstHit(xs, 1)

\* C4 as stated: f is not called on any item after the first item whose
\* effect succeeds with a non-null value.
ForEveryFirstNoLaterCall ==
  (sc.name = "forEveryFirst" /\ FirstHit(sc.xs, 1) # 0) =>
     Len(blog) + NumCalls(RunLog(1)) <= FirstHit(sc.xs, 1)

\* C4 amended: forEveryFirst calls f once on every item, in list order, while
\* it builds the composite, and never again; the effect f built for an item
\* after the first non-null success is never run.
ForEveryFirstNoLaterRun ==
  (sc.name = "forEveryFirst" /\ pc # "build") =>
     /\ blog = [j \in 1..Len(sc.xs) |-> CallEv(sc.xs[j], NoArg)]
     /\ NumCalls(RunLog(1)) = 0
     /\ IsPrefix(StartIds(RunLog(1)), SubSeq(sc.xs, 1, LastTried(sc.xs)))

ForEveryFirstNoLaterRunWitness ==
  /\ sc.name = "forEveryFirst" /\ sc.xs = <<1, 3, 2>>
  /\ world[1] = Null /\ world[3] = "b" /\ world[2] = "a"
  /\ pc = "done" /\ StartIds(logs[1]) = <<1, 3>> /\ Len(blog) = 3

\* C5: forEveryFirst is strictly sequential.  The effects are started in list
\* order, and each one after the first is started right after the effect
\* before it has settled with a failure or a null success.
ForEveryFirstSequential ==
  sc.name = "forEveryFirst" =>
     LET lg == RunLog(1)
     IN /\ IsPrefix(StartIds(lg), sc.xs)
        /\ \A p \in DOMAIN lg :
             (lg[p].ev = "start" /\ p > 1) =>
                /\ lg[p - 1].ev = "settle"
                /\ world[lg[p - 1].id] \in {Fail, Null}
                /\ lg[p - 1].id = sc.xs[Len(StartIds(SubSeq(lg, 1, p - 1)))]

ForEveryFirstSequentialWitness ==
  /\ sc.name = "forEveryFirst" /\ sc.xs = <<1, 2, 3>>
  /\ world[1] = Null /\ world[2] = Fail /\ world[3] = "a"
  /\ pc = "running" /\ Len(log) = 5 /\ log[5] = StartEv(3, NoArg, env)

\* The first stage of then(e, f1, ..., fn) that fails (stage 0 is e, stage i
\* the effect fi builds, leaf request i + 1); n + 1 when none fails.
RECURSIVE FirstFail(_, _)
FirstFail(i, n) ==
  IF i > n THEN n + 1 ELSE IF world[i + 1] = Fail THEN i ELSE FirstFail(i + 1, n)
Called(lg, id) == \E i \in DOMAIN lg : lg[i].ev = "call" /\ lg[i].id = id

\* C6: then short-circuits.  When e or the effect fk builds fails, no fj with
\* j > k is ever called and the composition fails.
ThenShortCircuit ==
  (sc.name = "then" /\ FirstFail(0, sc.n) <= sc.n) =>
     /\ \A j \in (FirstFail(0, sc.n) + 1)..sc.n : ~Called(RunLog(1), j + 1)
     /\ Finished(1) => results[1] = [st |-> "rejected", val |-> NoArg]

ThenShortCircuitWitness ==
  /\ sc.name = "then" /\ sc.n = 2 /\ world[1] = "a" /\ world[2] = Fail
  /\ pc = "done" /\ results[1].st = "rejected"
  /\ Called(logs[1], 2) /\ ~Called(logs[1], 3)

\* What then(e, f1, ..., fn) logs from stage i on, the stage receiving arg.
RECURSIVE ThenTrace(_, _, _)
ThenTrace(i, n, arg) ==
  (IF i = 0 THEN <<>> ELSE <<CallEv(i + 1, arg)>>)
    \o LeafTrace(i + 1, arg)
    \o (IF i < n /\ world[i + 1] # Fail THEN ThenTrace(i + 1, n, world[i + 1]) ELSE <<>>)

\* C7: then runs its stages left to right.  f(i+1) is called only after the
\* effect fi built has settled successfully, with that effect's value (f1
\* with e's value), and when every stage succeeds the composition succeeds
\* with the value of the last stage.
ThenLeftToRight ==
  sc.name = "then" =>
     /\ IsPrefix(RunLog(1), ThenTrace(0, sc.n, NoArg))
     /\ Finished(1) =>
          /\ logs[1] = ThenTrace(0, sc.n, NoArg)
          /\ FirstFail(0, sc.n) > sc.n =>
               results[1] = [st |-> "fulfilled", val |-> world[sc.n + 1]]

ThenLeftToRightWitness ==
  /\ sc.name = "then" /\ sc.n = 2
  /\ world[1] = "a" /\ world[2] = "b" /\ world[3] = Null
  /\ pc = "done" /\ results[1] = [st |-> "fulfilled", val |-> Null]
  /\ Called(logs[1], 3)

InFlight == {p \in DOMAIN heap : heap[p].kind = "leaf" /\ heap[p].st = "pending"}

\* C8: at most one leaf request is in flight at any instant of a call.
AtMostOneInFlight == Cardinality(InFlight) <= 1

AtMostOneInFlightWitness ==
  /\ sc.name = "mix" /\ Cardinality(InFlight) = 1
  /\ \E q \in DOMAIN heap : heap[q].kind = "leaf" /\ heap[q].st = "rejected"


\* A call fails when its promise is rejected or the call itself throws.
Failed(o) == o.st \in {"rejected", "threw"}
SameOutcome(a, b) == (Failed(a) /\ Failed(b)) \/ (a.st = "fulfilled" /\ a = b)

\* C9: empty() is a PRPromise that fails for every config and is the identity
\* of or: or(empty(), e) and or(e, empty()) called with env each yield the
\* outcome of e called with env.
OrEmptyIdentity ==
  (sc.name = "orEmpty" /\ pc = "done") =>
     /\ SameOutcome(results[1], results[3])
     /\ SameOutcome(results[2], results[3])

\* C10: sequencing is associative.  then(then(e, f), g), then(e, f, g),
\* then(e, y => then(f(y), g)) and then(e, chain(f, g)) called with env have
\* the same outcome and call e, the effect of f and the effect of g in the
\* same order.
ThenAssociative ==
  (sc.name = "assoc" /\ pc = "done") =>
     \A i \in 2..4 : results[i] = results[1] /\ logs[i] = logs[1]

ThenAssociativeWitness ==
  /\ sc.name = "assoc" /\ pc = "done"
  /\ world[1] = "a" /\ world[2] = "b" /\ world[3] = "a"
  /\ results[4] = [st |-> "fulfilled", val |-> "a"]
  /\ logs[4] = ThenTrace(0, 2, NoArg)


\* C11: identity laws.  then(e) with no continuation and map(x => x, e),
\* called with env, have the outcome of e called with env, and call e
\* exactly once.
IdentityLaws ==
  sc.name = "identity" =>
     /\ IsPrefix(RunLog(1), LeafTrace(1, NoArg))
     /\ IsPrefix(RunLog(2), LeafTrace(1, NoArg) \o <<FnEv(world[1])>>)
     /\ pc = "done" =>
          /\ results[1] = results[3] /\ results[2] = results[3]
          /\ results[3] = OutcomeOf(world[1])
          /\ logs[1] = LeafTrace(1, NoArg)
          /\ SelectSeq(logs[2], LAMBDA e : e.ev # "fn") = LeafTrace(1, NoArg)

IdentityLawsWitness ==
  /\ sc.name = "identity" /\ pc = "done" /\ world[1] = "b"
  /\ results[1] = [st |-> "fulfilled", val |-> "b"]
  /\ results[2] = [st |-> "fulfilled", val |-> "b"]


\* The config a log's leaf requests were started with.
StartEnvs(lg) == {lg[i].env : i \in {j \in DOMAIN lg : lg[j].ev = "start"}}
\* e is r overlaid by c: c's value for every key of c, r's value for every
\* other key of r, and no other key.
IsOverlay(e, r, c) ==
  /\ DOMAIN e = DOMAIN r \cup DOMAIN c
  /\ \A k \in DOMAIN c : e[k] = c[k]
  /\ \A k \in DOMAIN r \ DOMAIN c : e[k] = r[k]

ExtendConfigSeen ==
  sc.name = "extend" =>
     /\ \A e \in StartEnvs(RunLog(1)) : IsOverlay(e, env, ExtraConfig(sc.n))
     /\ Finished(1) => Started(logs[1], 1)
     /\ \A e \in StartEnvs(RunLog(2)) : e = env

\* C12: extendConfig(c, e) called with r calls e with r overlaid by c (c wins
\* on a shared key), and the caller's config is the same after the call as
\* before it: no step of any call changes it.
ExtendConfigOverlay == [](ExtendConfigSeen) /\ [][env' = env]_vars

ExtendConfigOverlayWitness ==
  /\ sc.name = "extend" /\ sc.n = 3 /\ pc = "done"
  /\ env = [server |-> "A", owner |-> "B"]
  /\ logs[1][1].env = [server |-> "A", owner |-> "X", prId |-> "2"]
  /\ logs[2][1].env = [server |-> "A", owner |-> "B"]


Rejected == [st |-> "rejected", val |-> NoArg]
Fulfilled(v) == [st |-> "fulfilled", val |-> v]

\* C13: when gates on the config.  when(p, v) called with env succeeds with v
\* when p(env) is true and fails when it is false, and starts no leaf request
\* in either case.
WhenGating ==
  sc.name = "when" =>
     /\ RunLog(1) = <<>>
     /\ InFlight = {}
     /\ Finished(1) =>
          results[1] = IF env.owner = "B" THEN Fulfilled("a") ELSE Rejected

WhenGatingWitness ==
  /\ sc.name = "when" /\ pc = "done" /\ env.owner = "C" /\ results[1] = Rejected

\* The value of or(e1, or(e2, pure(d))): that of the first ei that succeeds,
\* d when both fail.
FirstOrDefault(d) ==
  IF world[1] # Fail THEN world[1] ELSE IF world[2] # Fail THEN world[2] ELSE d

\* C14: a fallback chain that ends in pure never fails.  or(e1, or(e2,
\* pure(d))) succeeds with the value of the first ei that succeeds and with d
\* when both fail; or(when(p, a), pure(d)) succeeds with a when p(env) holds
\* and with d otherwise.
FallbackNeverFails ==
  (sc.name = "fallback" /\ pc = "done") =>
     /\ results[1] = Fulfilled(FirstOrDefault("d"))
     /\ results[2] = Fulfilled(IF env.owner = "B" THEN "a" ELSE "d")
     /\ (world[1] # Fail) => ~Started(logs[1], 2)

FallbackNeverFailsWitness ==
  /\ sc.name = "fallback" /\ pc = "done" /\ env.owner = "C"
  /\ world[1] = Fail /\ world[2] = Fail
  /\ results[1] = Fulfilled("d") /\ results[2] = Fulfilled("d")
  /\ Started(logs[1], 2)


HasEv(lg, e) == \E i \in DOMAIN lg : lg[i] = e

\* C15: null is ordinary data outside forEveryFirst.  When e succeeds with
\* null: or(e, e2) succeeds with null and never calls e2; then(e, f) calls f
\* with null and goes on with the effect f built; map(fn, e) applies fn to
\* null; forEveryFirst alone takes the null for a failure and tries the next
\* item.
NullIsData ==
  (sc.name = "null" /\ world[1] = Null) =>
     /\ ~Started(RunLog(1), 2)
     /\ Finished(1) => results[1] = Fulfilled(Null)
     /\ Finished(2) =>
          /\ logs[2] = LeafTrace(1, NoArg) \o <<CallEv(2, Null)>> \o LeafTrace(2, Null)
          /\ results[2] = OutcomeOf(world[2])
     /\ Finished(3) =>
          /\ HasEv(logs[3], FnEv(Null))
          /\ results[3] = Fulfilled("yes")
     /\ Finished(4) =>
          /\ Started(logs[4], 2)
          /\ results[4] = IF world[2] \in {Fail, Null} THEN Rejected
                          ELSE Fulfilled(world[2])

NullIsDataWitness ==
  /\ sc.name = "null" /\ world[1] = Null /\ world[2] = "a" /\ pc = "done"
  /\ results = <<Fulfilled(Null), Fulfilled("a"), Fulfilled("yes"), Fulfilled("a")>>

\* What map(fn, e) logs: e runs once with env, then fn is applied to its
\* value if it succeeded.
MapTrace ==
  LeafTrace(1, NoArg) \o (IF world[1] = Fail THEN <<>> ELSE <<FnEv(world[1])>>)

\* C16: map propagates.  map(fn, e) called with env calls e exactly once with
\* env; when e succeeds with a the result succeeds with fn(a); when e fails
\* the result fails and fn is never called.
MapPropagation ==
  sc.name = "map" =>
     /\ IsPrefix(RunLog(1), MapTrace)
     /\ Finished(1) =>
          /\ logs[1] = MapTrace
          /\ world[1] = Fail => results[1] = Rejected
          /\ (world[1] # Fail /\ MapFn(sc.n) # "throws") =>
               results[1] = Fulfilled(FnValue(MapFn(sc.n), world[1]))

MapPropagationWitness ==
  /\ sc.name = "map" /\ MapFn(sc.n) = "swap" /\ world[1] = "a" /\ pc = "done"
  /\ results[1] = Fulfilled("b") /\ Len(logs[1]) = 3

\* C18: a failing fn is a failure of map(fn, e).  When e succeeds with a and
\* fn fails on a, map(fn, e) fails: map does not recover from the failure and
\* puts no value in its place.
MapFnFailure ==
  (sc.name = "map" /\ MapFn(sc.n) = "throws" /\ world[1] # Fail /\ Finished(1)) =>
     /\ HasEv(logs[1], FnEv(world[1]))
     /\ results[1] = Rejected

MapFnFailureWitness ==
  /\ sc.name = "map" /\ MapFn(sc.n) = "throws" /\ world[1] = "a" /\ pc = "done"
  /\ results[1].st = "rejected" /\ HasEv(logs[1], FnEv("a"))


\* A step leaves every settled promise of the call as it is (until the call
\* is over and its promises are dropped), and adds at most one outcome.
SettledStays ==
  /\ \A p \in DOMAIN heap :
       Settled(heap[p]) =>
          \/ heap' = <<>>
          \/ /\ p \in DOMAIN heap'
             /\ heap'[p].st = heap[p].st
             /\ heap'[p].val = heap[p].val
  /\ IsPrefix(results, results')
  /\ Len(results') <= Len(results) + 1
  /\ Len(results') <= Len(suite')

\* C17: single settlement.  When every leaf request settles once, every call
\* of a composed effect eventually settles (the client sees every outcome),
\* and a promise that has settled never changes its outcome.
SingleSettlement ==
  /\ <>(pc = "done" /\ Len(results) = Len(suite))
  /\ [][SettledStays]_vars

SingleSettlementWitness ==
  /\ sc.name = "forEveryFirst" /\ sc.xs = <<1, 2, 3>> /\ pc = "done"
  /\ world[1] = Fail /\ world[2] = Null /\ world[3] = Fail
  /\ results = <<Rejected>> /\ Len(logs[1]) = 6


\* The configs the leaf request id was started with in a log.
StartEnvsOf(lg, id) ==
  {lg[i].env : i \in {j \in DOMAIN lg : lg[j].ev = "start" /\ lg[j].id = id}}
SeesOverlay(lg, id) == \A e \in StartEnvsOf(lg, id) : IsOverlay(e, env, ExtraConfig(1))
SeesConfig(lg, id) == \A e \in StartEnvsOf(lg, id) : e = env

\* C19: the config is threaded unchanged, and an overlay is local.
\* then(e, f1, ..., fn) called with r calls e and every effect the fi build
\* with r.  In then(extendConfig(c, e), f) and or(extendConfig(c, e1), e2),
\* e sees r overlaid by c while the effect f builds, and e2, see r; in
\* extendConfig(c, then(e, f)) and extendConfig(c, or(e1, e2)) every effect
\* sees r overlaid by c.
ConfigScope ==
  /\ sc.name = "then" => \A e \in StartEnvs(RunLog(1)) : e = env
  /\ sc.name = "scope" =>
       /\ SeesOverlay(RunLog(1), 1) /\ SeesConfig(RunLog(1), 2)
       /\ SeesOverlay(RunLog(2), 1) /\ SeesConfig(RunLog(2), 2)
       /\ SeesOverlay(RunLog(3), 1) /\ SeesOverlay(RunLog(3), 2)
       /\ SeesOverlay(RunLog(4), 1) /\ SeesOverlay(RunLog(4), 2)

ConfigScopeWitness ==
  /\ sc.name = "scope" /\ pc = "done" /\ env.owner = "B"
  /\ world[1] = "a" /\ world[2] = "b"
  /\ StartEnvsOf(logs[1], 2) = {[server |-> "A", owner |-> "B"]}
  /\ StartEnvsOf(logs[1], 1) = {[server |-> "A", owner |-> "X"]}
  /\ StartEnvsOf(logs[3], 2) = {[server |-> "A", owner |-> "X"]}

ConfigScopeOrWitness ==
  /\ sc.name = "scope" /\ pc = "done" /\ world[1] = Fail
  /\ StartEnvsOf(logs[2], 2) = {env}
  /\ StartEnvsOf(logs[4], 2) = {[server |-> "A", owner |-> "X"]}

\* C20: forEveryFirst takes only null for absence.  When the effect of an
\* item succeeds with false, 0, the empty string or undefined, forEveryFirst
\* succeeds with that value and does not try the next item.
FalsyIsFound ==
  sc.name = "falsy" =>
     /\ ~Started(RunLog(1), 2)
     /\ Finished(1) => results[1] = Fulfilled(world[1])

FalsyIsFoundWitness ==
  /\ sc.name = "falsy" /\ pc = "done" /\ world[1] = "undefined" /\ world[2] = "a"
  /\ results[1] = Fulfilled("undefined") /\ StartIds(logs[1]) = <<1>>

====
